---- MODULE Spec2Model ----
(***************************************************************************)
(* Job execution engine of docker-java-executor (src/server.js).           *)
(*                                                                         *)
(* State: the jobs table of the SQLite store, the containers of the docker *)
(* daemon that carry the project label, the locals of each invocation of   *)
(* executeJavaInDocker (one per job) with its position, and the phase of   *)
(* the node process (start(), listening, SIGTERM handler, down).           *)
(* Every await of the source is one step; a store call may answer with an  *)
(* error and a docker call may throw.                                      *)
(***************************************************************************)
EXTENDS Integers, FiniteSets, Sequences, TLC

\* Number of job ids (uuidv4 values) the model hands out.
MaxJobs == 1
\* Number of times the process may go down (crash or signal) and be restarted.
MaxDowns == 1

JobIds == 1..MaxJobs

VARIABLES
    jobs,     \* the jobs table: job id -> row (status "none": no such row)
    cont,     \* docker containers labelled project=PROJECT_LABEL, by jobId label
    sup,      \* executeJavaInDocker(jobId): locals and position
    phase,    \* the node process: starting, sweeping, listening, stopping, down
    sweep,    \* cleanupOrphanedContainers: containers listed and not yet removed
    downs,    \* how many times the process went down
    api_keys, \* the api_keys table: the keys authenticateApiKey accepts
    now,      \* the wall clock, in ms (Date.now())
    wire,     \* attach stream: bytes written by the daemon, not yet delivered
    sent,     \* attach stream: the frames the daemon wrote
    partial,  \* attach stream: the bytes of a frame cut short by the end of stream
    bufs,     \* stream.on('data'): the strings stdout and stderr
    samples,  \* stats stream: the frames delivered
    peaks     \* statsStream.on('data'): maxCpuPercent and maxMemoryMb

engine == <<jobs, cont, sup, phase, sweep, downs>>
demux == <<wire, sent, partial, bufs>>
sampler == <<samples, peaks>>
vars == <<jobs, cont, sup, phase, sweep, downs, api_keys, now, wire, sent, partial, bufs,
          samples, peaks>>

----------------------------------------------------------------------------
\* The store: rows of table jobs and the SQL statements of the source.

\* The keys of table api_keys: the default test key that initDatabase inserts,
\* and a key created with the key manager.
DefaultKey == "test-api-key-123"
ApiKeys == {DefaultKey, "key-B"}

\* CURRENT_TIMESTAMP: the clock in whole seconds.
CurrentTimestamp(ms) == ms \div 1000

\* stdout.substring(0, 10000): the limit on a persisted output, in characters.
OutputCap == 10000

\* The length of text.substring(0, end) for a text of length len.
Substring(len, end) == IF len < end THEN len ELSE end

\* Errors whose message is the daemon's response body, of the daemon's length.
LongErrors == {"rt:create:long"}

\* error.message.length: 'Job not found' has 13 characters, the short texts
\* are taken to be of that size; a long text exceeds the output limit.
MessageLen(message) == IF message \in LongErrors THEN OutputCap + 1 ELSE 13

\* A slot of the table that holds no row. Texts are kept as a tag for their
\* content and their length; started_at and completed_at as set or NULL.
\* A JavaScript number: a finite value n/d in lowest terms with d > 0, or
\* Infinity, -Infinity or NaN (the rounding of doubles is left out). "null" is
\* the NULL of a REAL column.
RECURSIVE GCD(_, _)
GCD(a, b) == IF b = 0 THEN a ELSE GCD(b, a % b)

Abs(n) == IF n < 0 THEN -n ELSE n

Fin(n, d) ==
    LET g == GCD(Abs(n), d)
    IN [k |-> "fin", n |-> n \div g, d |-> d \div g]

Infinity == [k |-> "inf", n |-> 1, d |-> 0]
NegInfinity == [k |-> "ninf", n |-> -1, d |-> 0]
NaN == [k |-> "nan", n |-> 0, d |-> 0]
Null == [k |-> "null", n |-> 0, d |-> 0]
Zero == Fin(0, 1)

\* a / b for integers a and b.
Div(a, b) ==
    IF b = 0 THEN (IF a > 0 THEN Infinity ELSE IF a < 0 THEN NegInfinity ELSE NaN)
    ELSE IF b < 0 THEN Fin(-a, -b)
    ELSE Fin(a, b)

\* x * m for a number x and an integer m > 0.
Times(x, m) == IF x.k = "fin" THEN Fin(x.n * m, x.d) ELSE x

\* x > y: false when either side is NaN.
Gt(x, y) ==
    IF x.k = "nan" \/ y.k = "nan" THEN FALSE
    ELSE IF x.k = "inf" THEN y.k # "inf"
    ELSE IF x.k = "ninf" THEN FALSE
    ELSE IF y.k = "inf" THEN FALSE
    ELSE IF y.k = "ninf" THEN TRUE
    ELSE x.n * y.d > y.n * x.d

NoRow ==
    [status |-> "none", api_key |-> "NULL", container_id |-> FALSE,
     stdout |-> "NULL", stdout_len |-> 0, stderr |-> "NULL", stderr_len |-> 0,
     crashed |-> 0, timed_out |-> 0, execution_time_ms |-> -1,
     created_at |-> -1, started_at |-> FALSE, completed_at |-> FALSE,
     args |-> "NULL", input_files |-> "NULL",
     memory_usage_mb |-> Null, cpu_percent_max |-> Null]

\* JSON.stringify of an array of strings, or of an array of objects with string
\* members: the text, written as the tag "json" with the array the text denotes.
JsonStringify(value) == <<"json", value>>

\* JSON.parse of such a text.
JsonParse(text) == text[2]

\* INSERT INTO jobs (id, api_key, ...) VALUES (..., 'not_started'); created_at
\* defaults to CURRENT_TIMESTAMP, the other columns to NULL or 0.
InsertRow(apiKey, ms, args, inputFiles) ==
    [NoRow EXCEPT !.status = "not_started", !.api_key = apiKey,
                  !.created_at = CurrentTimestamp(ms),
                  !.args = JsonStringify(args),
                  !.input_files = JsonStringify(inputFiles)]

\* An UPDATE that sets started_at and leaves the status as it is.
MarkRunningRow_KeepStatus(row) ==
    [row EXCEPT !.started_at = TRUE]

\* UPDATE jobs SET status = 'running', started_at = CURRENT_TIMESTAMP WHERE id = ?
MarkRunningRow(row) ==
    [row EXCEPT !.status = "running", !.started_at = TRUE]

\* UPDATE jobs SET container_id = ? WHERE id = ?
ContainerIdRow(row) ==
    [row EXCEPT !.container_id = TRUE]

\* UPDATE jobs SET status = 'done', stdout, stderr, crashed, timed_out, ...,
\* execution_time_ms, completed_at = CURRENT_TIMESTAMP WHERE id = ?
\* (no condition on status); stdout and stderr are the lengths of the buffers.
FinalizeRow(row, stdout, stderr, crashed, timedOut, maxMemoryMb, maxCpuPercent, executionTime) ==
    [row EXCEPT !.status = "done",
                !.stdout = "out", !.stdout_len = Substring(stdout, OutputCap),
                !.stderr = "err", !.stderr_len = Substring(stderr, OutputCap),
                !.crashed = IF crashed THEN 1 ELSE 0,
                !.timed_out = IF timedOut THEN 1 ELSE 0,
                !.memory_usage_mb = maxMemoryMb,
                !.cpu_percent_max = maxCpuPercent,
                !.execution_time_ms = executionTime,
                !.completed_at = TRUE]

\* A failure path that puts the job back for another attempt.
CatchFinalizeRow_Requeue(row, message) ==
    [row EXCEPT !.status = "not_started", !.stderr = message,
                !.stderr_len = MessageLen(message)]

\* UPDATE jobs SET status = 'done', crashed = 1, stderr = ?,
\* completed_at = CURRENT_TIMESTAMP WHERE id = ?   (no condition on status);
\* the parameter is error.message as it is.
CatchFinalizeRow(row, message) ==
    [row EXCEPT !.status = "done", !.crashed = 1, !.stderr = message,
                !.stderr_len = MessageLen(message), !.completed_at = TRUE]

----------------------------------------------------------------------------
\* The container runtime.

\* No container was created for the job.
\* pending: the chunks of output the daemon has written to the attach stream
\* and the socket has not delivered yet, printed their number so far; argv: the
\* arguments the program is run with; files: the names of the archive entries
\* uploaded to /app.
NoContainer ==
    [st |-> "none", present |-> FALSE, code |-> -1,
     pending |-> <<>>, printed |-> 0, argv |-> <<>>, files |-> <<>>]

\* Exit codes of a program that ends by itself: 0, or non-zero.
ExitCodes == {0, 1}

\* container.remove({force: true}) that succeeds: a running container is
\* killed (exit status 137) and the container leaves the runtime.
ForceRemoved(c) ==
    IF c.st = "running"
    THEN [c EXCEPT !.st = "forced", !.present = FALSE, !.code = 137]
    ELSE [c EXCEPT !.present = FALSE]

\* container.remove() without force: refused by the daemon while the container runs.
PlainRemoveAllowed(c) == c.present /\ c.st # "running"

----------------------------------------------------------------------------
\* executeJavaInDocker: locals of one invocation. rm records the outcome of the
\* remove call it made, lateFire that its timer callback found the container
\* no longer running, attachTime the clock when attach was called, armedTime the
\* clock when the timer was set, waitTime the clock when wait resolved, chunks
\* the number of 'data' events handled.
\* stdout and stderr are the lengths of the two strings.

IdleSup ==
    [pc |-> "idle", container |-> FALSE, timeout |-> "null", timedOut |-> FALSE,
     result |-> -1, crashed |-> FALSE, error |-> "", rm |-> "none",
     lateFire |-> FALSE, stream |-> FALSE, statsStream |-> FALSE,
     stdout |-> 0, stderr |-> 0, chunks |-> 0,
     peaks |-> [maxCpuPercent |-> Zero, maxMemoryMb |-> Zero],
     startTime |-> 0, attachTime |-> 0, armedTime |-> 0, waitTime |-> 0,
     executionTime |-> 0]

\* A server that listens before the startup sweep is over.
Up_BeforeSweepEnds == {"sweeping", "listening", "stopping"}

\* The phases in which the server listens: app.listen() is called after
\* cleanupOrphanedContainers() has returned, and the signal handler sweeps
\* while the server still listens.
Up == {"listening", "stopping"}

RuntimeErrors ==
    {"rt:create", "rt:putArchive", "rt:attach", "rt:start", "rt:stats", "rt:wait"}
        \cup LongErrors

StoreErrors == {"db:load", "db:markRunning", "db:containerId", "db:finalize"}

\* throw inside the try block: control passes to the catch block (line 322).
Throw(j, message) ==
    sup' = [sup EXCEPT ![j].pc = "catchUpdate", ![j].error = message]

\* A docker call on the job's container can succeed only while it is in the runtime.
DockerOutcomes(j) == IF cont[j].present THEN BOOLEAN ELSE {FALSE}

\* The state after construction, but for the content of table api_keys.
ConstructOn(ids) ==
    /\ jobs = [j \in ids |-> NoRow]
    /\ cont = [j \in ids |-> NoContainer]
    /\ sup = [j \in ids |-> IdleSup]
    /\ phase = "starting"
    /\ sweep = {}
    /\ downs = 0
    /\ now = 0
    /\ wire = <<>>
    /\ sent = <<>>
    /\ partial = <<>>
    /\ bufs = [stdout |-> <<>>, stderr |-> <<>>]
    /\ samples = <<>>
    /\ peaks = [maxCpuPercent |-> Zero, maxMemoryMb |-> Zero]

Construct == ConstructOn(JobIds)

\* A fresh database: initDatabase inserts the default test key.
Init == Construct /\ api_keys = {DefaultKey}

----------------------------------------------------------------------------
\* The node process: start(), the signal handlers, and its death.

\* An invocation that died with the process.
DeadSup == [IdleSup EXCEPT !.pc = "dead"]

\* The process ends: every invocation in progress is gone with its timer.
KillSupervisors ==
    [j \in DOMAIN sup |-> IF sup[j].pc = "idle" THEN sup[j] ELSE DeadSup]

\* docker.listContainers({all: true, filters: {label: [project=...]}})
ListContainers == {j \in DOMAIN cont : cont[j].present}

\* start(): initDatabase(), then cleanupOrphanedContainers() lists the
\* labelled containers; a failing list is logged and the server listens.
StartList ==
    /\ phase = "starting"
    /\ \E ok \in BOOLEAN :
         IF ok
         THEN phase' = "sweeping" /\ sweep' = ListContainers
         ELSE phase' = "listening" /\ sweep' = {}
    /\ UNCHANGED <<jobs, cont, sup, downs, api_keys, now, demux, sampler>>

\* cleanupOrphanedContainers: container.remove({force: true}) on the next
\* listed container; an error is logged and the loop goes on.
SweepRemove ==
    /\ phase \in {"sweeping", "stopping"}
    /\ sweep # {}
    /\ LET j == CHOOSE x \in sweep : \A y \in sweep : x <= y
       IN /\ \E ok \in DockerOutcomes(j) :
               cont' = IF ok THEN [cont EXCEPT ![j] = ForceRemoved(cont[j])] ELSE cont
          /\ sweep' = sweep \ {j}
    /\ UNCHANGED <<jobs, sup, phase, downs, api_keys, now, demux, sampler>>

\* start(): the sweep is over, app.listen().
StartListen ==
    /\ phase = "sweeping"
    /\ sweep = {}
    /\ phase' = "listening"
    /\ UNCHANGED <<jobs, cont, sup, sweep, downs, api_keys, now, demux, sampler>>

\* process.on('SIGTERM' | 'SIGINT'): cleanupOrphanedContainers() starts while
\* the server keeps serving.
Sigterm ==
    /\ phase = "listening"
    /\ downs < MaxDowns
    /\ downs' = downs + 1
    /\ phase' = "stopping"
    /\ \E ok \in BOOLEAN : sweep' = IF ok THEN ListContainers ELSE {}
    /\ UNCHANGED <<jobs, cont, sup, api_keys, now, demux, sampler>>

\* Signal handler: after the sweep, db.close() and process.exit(0).
SigExit ==
    /\ phase = "stopping"
    /\ sweep = {}
    /\ phase' = "down"
    /\ sup' = KillSupervisors
    /\ UNCHANGED <<jobs, cont, sweep, downs, api_keys, now, demux, sampler>>

\* The process dies without running any handler (kill -9, host failure,
\* unhandled rejection).
Crash ==
    /\ phase # "down"
    /\ downs < MaxDowns
    /\ downs' = downs + 1
    /\ phase' = "down"
    /\ sweep' = {}
    /\ sup' = KillSupervisors
    /\ UNCHANGED <<jobs, cont, api_keys, now, demux, sampler>>

\* The process is started again: start() runs from the top.
Restart ==
    /\ phase = "down"
    /\ phase' = "starting"
    /\ UNCHANGED <<jobs, cont, sup, sweep, downs, api_keys, now, demux, sampler>>

----------------------------------------------------------------------------
\* POST /api/submit

\* uuidv4(): an id no row has.
FreshIds == {j \in DOMAIN jobs : jobs[j].status = "none" /\ sup[j].pc = "idle"}

\* authenticateApiKey: 401 for a key that is not in api_keys. The handler: 400
\* without javaCode; INSERT; on success executeJavaInDocker is called and runs
\* up to its first await (the SELECT of the row), taking startTime.
SubmitBody(args, inputFiles) ==
    /\ phase \in Up
    /\ FreshIds # {}
    /\ LET jobId == CHOOSE x \in FreshIds : \A y \in FreshIds : x <= y
       IN \E apiKey \in ApiKeys, javaCode \in BOOLEAN, ok \in BOOLEAN :
            IF apiKey \in api_keys /\ javaCode /\ ok
            THEN /\ jobs' = [jobs EXCEPT ![jobId] =
                                 InsertRow(apiKey, now, args, inputFiles)]
                 /\ sup' = [sup EXCEPT ![jobId].pc = "load",
                                       ![jobId].startTime = now]
            ELSE UNCHANGED <<jobs, sup>>
    /\ UNCHANGED <<cont, phase, sweep, downs, api_keys, now, demux, sampler>>

\* A request body with javaCode only: args = [] and inputFiles = [].
Submit == SubmitBody(<<>>, <<>>)

----------------------------------------------------------------------------
\* executeJavaInDocker(jobId), one step per await.

\* A store call of invocation j is answered: the invocation is in progress.
AtPc(j, pc) == phase \in Up /\ sup[j].pc = pc

\* A try block that starts the container before it attaches to its output.
StepAfter_StartFirst(pc) ==
    CASE pc = "load" -> "markRunning"
      [] pc = "markRunning" -> "create"
      [] pc = "create" -> "recordCid"
      [] pc = "recordCid" -> "putArchive"
      [] pc = "putArchive" -> "start"
      [] pc = "start" -> "attach"
      [] pc = "attach" -> "stats"
      [] pc = "stats" -> "wait"

\* The awaits of the try block in the order of the source: the call that is
\* issued when the call at pc has succeeded.
StepAfter(pc) ==
    CASE pc = "load" -> "markRunning"
      [] pc = "markRunning" -> "create"
      [] pc = "create" -> "recordCid"
      [] pc = "recordCid" -> "putArchive"
      [] pc = "putArchive" -> "attach"
      [] pc = "attach" -> "start"
      [] pc = "start" -> "stats"
      [] pc = "stats" -> "wait"

\* clearTimeout(timeout): a timer that has not fired will not fire.
ClearTimeout(t) == IF t = "armed" THEN "cleared" ELSE t

\* SELECT * FROM jobs WHERE id = ?; a missing row throws 'Job not found'.
Load(j) ==
    /\ AtPc(j, "load")
    /\ \E ok \in BOOLEAN :
         IF ~ok THEN Throw(j, "db:load")
         ELSE IF jobs[j].status = "none" THEN Throw(j, "Job not found")
         ELSE sup' = [sup EXCEPT ![j].pc = StepAfter("load")]
    /\ UNCHANGED <<jobs, cont, phase, sweep, downs, api_keys, now, demux, sampler>>

\* Update job status to running.
MarkRunning(j) ==
    /\ AtPc(j, "markRunning")
    /\ \E ok \in BOOLEAN :
         IF ok
         THEN /\ jobs' = [jobs EXCEPT ![j] = MarkRunningRow(jobs[j])]
              /\ sup' = [sup EXCEPT ![j].pc = StepAfter("markRunning")]
         ELSE /\ Throw(j, "db:markRunning")
              /\ UNCHANGED jobs
    /\ UNCHANGED <<cont, phase, sweep, downs, api_keys, now, demux, sampler>>

\* args.join(' '): the elements, each a sequence of characters, with one
\* space between any two.
RECURSIVE Join(_)
Join(args) ==
    IF args = <<>> THEN <<>>
    ELSE IF Len(args) = 1 THEN args[1]
    ELSE args[1] \o <<" ">> \o Join(Tail(args))

\* sh -c '... java Main <text>': the shell splits the text into words at
\* spaces; word is the word being read.
RECURSIVE ShellWords(_, _)
ShellWords(text, word) ==
    IF text = <<>> THEN (IF word = <<>> THEN <<>> ELSE <<word>>)
    ELSE IF Head(text) = " "
         THEN (IF word = <<>> THEN <<>> ELSE <<word>>) \o ShellWords(Tail(text), <<>>)
    ELSE ShellWords(Tail(text), Append(word, Head(text)))

\* Cmd: ['sh', '-c', `cd /app && javac Main.java && java Main ${args.join(' ')}`]:
\* the arguments that main receives.
MainArgv(row) ==
    LET args == IF row.args # "NULL" THEN JsonParse(row.args) ELSE <<>>
    IN ShellWords(Join(args), <<>>)

\* createTarArchive: Main.java, then one entry for every input file that has a
\* name and a content, under the name as given.
RECURSIVE PackEntries(_)
PackEntries(inputFiles) ==
    IF inputFiles = <<>> THEN <<>>
    ELSE (IF Head(inputFiles).name # "" /\ Head(inputFiles).content # ""
          THEN <<Head(inputFiles).name>> ELSE <<>>)
            \o PackEntries(Tail(inputFiles))

createTarArchive(row) ==
    LET inputFiles == IF row.input_files # "NULL" THEN JsonParse(row.input_files)
                      ELSE <<>>
    IN <<"Main.java">> \o PackEntries(inputFiles)

\* Parse args and input files, build the archive, docker.createContainer; the
\* daemon's refusal comes with a short or with a long text.
Create(j) ==
    /\ AtPc(j, "create")
    /\ \E ok \in BOOLEAN :
         IF ok
         THEN /\ cont' = [cont EXCEPT ![j] = [NoContainer EXCEPT !.st = "created",
                                                                 !.present = TRUE,
                                                                 !.argv = MainArgv(jobs[j])]]
              /\ sup' = [sup EXCEPT ![j].pc = StepAfter("create"), ![j].container = TRUE]
         ELSE /\ \E message \in {"rt:create"} \cup LongErrors : Throw(j, message)
              /\ UNCHANGED cont
    /\ UNCHANGED <<jobs, phase, sweep, downs, api_keys, now, demux, sampler>>

\* Update container ID in database.
RecordCid(j) ==
    /\ AtPc(j, "recordCid")
    /\ \E ok \in BOOLEAN :
         IF ok
         THEN /\ jobs' = [jobs EXCEPT ![j] = ContainerIdRow(jobs[j])]
              /\ sup' = [sup EXCEPT ![j].pc = StepAfter("recordCid")]
         ELSE /\ Throw(j, "db:containerId")
              /\ UNCHANGED jobs
    /\ UNCHANGED <<cont, phase, sweep, downs, api_keys, now, demux, sampler>>

\* container.putArchive(tarBuffer, {path: '/app'})
PutArchive(j) ==
    /\ AtPc(j, "putArchive")
    /\ \E ok \in DockerOutcomes(j) :
         IF ok THEN /\ sup' = [sup EXCEPT ![j].pc = StepAfter("putArchive"),
                                          ![j].attachTime = now]
                    /\ cont' = [cont EXCEPT ![j].files = createTarArchive(jobs[j])]
         ELSE Throw(j, "rt:putArchive") /\ UNCHANGED cont
    /\ UNCHANGED <<jobs, phase, sweep, downs, api_keys, now, demux, sampler>>

\* container.attach({stream: true, stdout: true, stderr: true})
Attach(j) ==
    /\ AtPc(j, "attach")
    /\ \E ok \in DockerOutcomes(j) :
         IF ok THEN sup' = [sup EXCEPT ![j].pc = StepAfter("attach"),
                                       ![j].stream = TRUE]
         ELSE Throw(j, "rt:attach")
    /\ UNCHANGED <<jobs, cont, phase, sweep, downs, api_keys, now, demux, sampler>>

\* container.start(); then the 'data' handler of the attach stream is set.
Start(j) ==
    /\ AtPc(j, "start")
    /\ \E ok \in DockerOutcomes(j) :
         IF ok
         THEN /\ cont' = [cont EXCEPT ![j].st = "running"]
              /\ sup' = [sup EXCEPT ![j].pc = StepAfter("start")]
         ELSE /\ Throw(j, "rt:start")
              /\ UNCHANGED cont
    /\ UNCHANGED <<jobs, phase, sweep, downs, api_keys, now, demux, sampler>>

\* container.stats({stream: true}); then setTimeout(..., CONTAINER_TIMEOUT_MS)
\* and container.wait() is called.
Stats(j) ==
    /\ AtPc(j, "stats")
    /\ \E ok \in DockerOutcomes(j) :
         IF ok THEN sup' = [sup EXCEPT ![j].pc = StepAfter("stats"),
                                       ![j].statsStream = TRUE,
                                       ![j].timeout = "armed",
                                       ![j].armedTime = now]
         ELSE Throw(j, "rt:stats")
    /\ UNCHANGED <<jobs, cont, phase, sweep, downs, api_keys, now, demux, sampler>>

\* The container has stopped: by itself, by a kill, or by a forced removal.
Stopped(c) == c.st \in {"exited", "killed", "forced"}

\* const crashed = result.StatusCode !== 0 && !timedOut
Crashed(statusCode, timedOut) == statusCode # 0 /\ ~timedOut

\* container.wait() resolves with the status code once the container has
\* stopped: executionTime = Date.now() - startTime, clearTimeout, classify, and
\* the finalize UPDATE is issued with the two strings as they are then.
Wait(j) ==
    /\ AtPc(j, "wait")
    /\ Stopped(cont[j])
    /\ sup' = [sup EXCEPT ![j].pc = "finalize",
                          ![j].result = cont[j].code,
                          ![j].waitTime = now,
                          ![j].executionTime = now - sup[j].startTime,
                          ![j].timeout = ClearTimeout(sup[j].timeout),
                          ![j].crashed = Crashed(cont[j].code, sup[j].timedOut)]
    /\ UNCHANGED <<jobs, cont, phase, sweep, downs, api_keys, now, demux, sampler>>

\* container.wait() rejects (daemon error): the timer stays armed.
WaitThrows(j) ==
    /\ AtPc(j, "wait")
    /\ Throw(j, "rt:wait")
    /\ UNCHANGED <<jobs, cont, phase, sweep, downs, api_keys, now, demux, sampler>>

\* Update job with results.
Finalize(j) ==
    /\ AtPc(j, "finalize")
    /\ \E ok \in BOOLEAN :
         IF ok
         THEN /\ jobs' = [jobs EXCEPT ![j] =
                            FinalizeRow(jobs[j], sup[j].stdout, sup[j].stderr,
                                        sup[j].crashed, sup[j].timedOut,
                                        sup[j].peaks.maxMemoryMb,
                                        sup[j].peaks.maxCpuPercent,
                                        sup[j].executionTime)]
              /\ sup' = [sup EXCEPT ![j].pc = "remove"]
         ELSE /\ Throw(j, "db:finalize")
              /\ UNCHANGED jobs
    /\ UNCHANGED <<cont, phase, sweep, downs, api_keys, now, demux, sampler>>

\* An error of container.remove() that leaves the try block.
RemoveNextPc_Throws(ok) == IF ok THEN "resolved" ELSE "catchUpdate"

\* try { await container.remove() } catch (e) { console.error(...) }; resolve.
RemoveNextPc(ok) == "resolved"

\* Clean up container (success path).
Remove(j) ==
    /\ AtPc(j, "remove")
    /\ \E ok \in (IF PlainRemoveAllowed(cont[j]) THEN BOOLEAN ELSE {FALSE}) :
         /\ cont' = IF ok THEN [cont EXCEPT ![j].present = FALSE] ELSE cont
         /\ sup' = [sup EXCEPT ![j].pc = RemoveNextPc(ok),
                               ![j].rm = IF ok THEN "ok" ELSE "err",
                               ![j].error = IF RemoveNextPc(ok) = "catchUpdate"
                                            THEN "rt:remove" ELSE sup[j].error]
    /\ UNCHANGED <<jobs, phase, sweep, downs, api_keys, now, demux, sampler>>

\* A catch block that resolves right after its UPDATE.
CatchNextPc_NoRemove(container) == "resolvedFail"

\* if (container) { remove({force: true}) }; if (timeout) clearTimeout; resolve.
CatchNextPc(container) == IF container THEN "catchRemove" ELSE "resolvedFail"

\* catch (error): Update job status to failed. A rejected UPDATE leaves the
\* catch block: nothing after it runs and the promise is never resolved.
CatchUpdate(j) ==
    /\ AtPc(j, "catchUpdate")
    /\ \E ok \in BOOLEAN :
         IF ok
         THEN /\ jobs' = [jobs EXCEPT ![j] = CatchFinalizeRow(jobs[j], sup[j].error)]
              /\ sup' = [sup EXCEPT
                           ![j].pc = CatchNextPc(sup[j].container),
                           ![j].timeout = IF CatchNextPc(sup[j].container) = "resolvedFail"
                                          THEN ClearTimeout(sup[j].timeout)
                                          ELSE sup[j].timeout]
         ELSE /\ sup' = [sup EXCEPT ![j].pc = "aborted"]
              /\ UNCHANGED jobs
    /\ UNCHANGED <<cont, phase, sweep, downs, api_keys, now, demux, sampler>>

\* catch: Clean up container if exists, then clearTimeout and resolve.
CatchRemove(j) ==
    /\ AtPc(j, "catchRemove")
    /\ \E ok \in DockerOutcomes(j) :
         /\ cont' = IF ok THEN [cont EXCEPT ![j] = ForceRemoved(cont[j])] ELSE cont
         /\ sup' = [sup EXCEPT ![j].pc = "resolvedFail",
                               ![j].rm = IF ok THEN "ok" ELSE "err",
                               ![j].timeout = ClearTimeout(sup[j].timeout)]
    /\ UNCHANGED <<jobs, phase, sweep, downs, api_keys, now, demux, sampler>>

\* A callback that does not leave the record to the continuation of wait: it
\* kills and writes the finalize UPDATE itself.
TimerFire_Finalizes(j) ==
    /\ phase \in Up
    /\ sup[j].timeout = "armed"
    /\ sup' = [sup EXCEPT ![j].timeout = "fired", ![j].timedOut = TRUE]
    /\ jobs' = [jobs EXCEPT ![j] =
                  FinalizeRow(jobs[j], sup[j].stdout, sup[j].stderr, FALSE, TRUE,
                              sup[j].peaks.maxMemoryMb, sup[j].peaks.maxCpuPercent,
                              now - sup[j].startTime)]
    /\ cont' = IF cont[j].st = "running"
               THEN [cont EXCEPT ![j].st = "killed", ![j].code = 137]
               ELSE cont
    /\ UNCHANGED <<phase, sweep, downs, api_keys, now, demux, sampler>>

\* The setTimeout callback: timedOut = true; container.kill(), whose error is
\* ignored. A kill that succeeds stops a running container (status 137).
TimerFire(j) ==
    /\ phase \in Up
    /\ sup[j].timeout = "armed"
    /\ sup' = [sup EXCEPT ![j].timeout = "fired", ![j].timedOut = TRUE,
                          ![j].lateFire = ~(cont[j].present /\ cont[j].st = "running")]
    /\ \E ok \in DockerOutcomes(j) :
         cont' = IF ok /\ cont[j].st = "running"
                 THEN [cont EXCEPT ![j].st = "killed", ![j].code = 137]
                 ELSE cont
    /\ UNCHANGED <<jobs, phase, sweep, downs, api_keys, now, demux, sampler>>

\* The program in the container ends by itself with some exit code.
ContainerExit(j) ==
    /\ cont[j].present
    /\ cont[j].st = "running"
    /\ \E code \in ExitCodes :
         cont' = [cont EXCEPT ![j].st = "exited", ![j].code = code]
    /\ UNCHANGED <<jobs, sup, phase, sweep, downs, api_keys, now, demux, sampler>>

----------------------------------------------------------------------------

\* The steps of an invocation that happen once the call it awaits is answered.
SupervisorStep(j) ==
    \/ Load(j) \/ MarkRunning(j) \/ Create(j) \/ RecordCid(j)
    \/ PutArchive(j) \/ Attach(j) \/ Start(j) \/ Stats(j)
    \/ Wait(j) \/ Finalize(j) \/ Remove(j)
    \/ CatchUpdate(j) \/ CatchRemove(j)

\* Every step but the timer callback.
Step ==
    \/ StartList \/ SweepRemove \/ StartListen
    \/ Sigterm \/ SigExit \/ Crash \/ Restart
    \/ Submit
    \/ \E j \in JobIds : SupervisorStep(j)
    \/ \E j \in JobIds : WaitThrows(j)
    \/ \E j \in JobIds : ContainerExit(j)

\* The engine with delays left open: an armed timer may fire at any moment,
\* the clock is not advanced and the programs print nothing.
Next ==
    \/ Step
    \/ \E j \in JobIds : TimerFire(j)

Spec == Init /\ [][Next]_vars

\* Every call that was issued is answered (with a result or an error), an armed
\* timer fires unless cleared, and a sweep that started runs to its end. Nothing
\* makes a program end, a daemon call fail, a request arrive or the process stop.
Fairness ==
    /\ \A j \in JobIds : WF_vars(SupervisorStep(j)) /\ WF_vars(TimerFire(j))
    /\ WF_vars(StartList) /\ WF_vars(SweepRemove) /\ WF_vars(StartListen)
    /\ WF_vars(SigExit)

FairSpec == Init /\ [][Next]_vars /\ Fairness

----------------------------------------------------------------------------
\* The engine with the output of the programs.

\* Number of chunks a program prints.
MaxChunks == 2

\* Payload sizes of a chunk: a character, or as much as the output limit.
PayloadLens == {1, OutputCap}

\* The program prints: the daemon writes a chunk of one stream type to the
\* attach stream.
ProgramPrint(j) ==
    /\ cont[j].present
    /\ cont[j].st = "running"
    /\ cont[j].printed < MaxChunks
    /\ \E type \in {1, 2, 3}, n \in PayloadLens :
         cont' = [cont EXCEPT ![j].pending = Append(@, [type |-> type, n |-> n]),
                              ![j].printed = @ + 1]
    /\ UNCHANGED <<jobs, sup, phase, sweep, downs, api_keys, now, demux, sampler>>

\* The 'data' handler is set by the invocation that attached, once its start
\* call has returned.
HandlerSet(j) ==
    /\ sup[j].stream
    /\ cont[j].st \in {"running", "exited", "killed", "forced"}

\* stream.on('data'): the socket delivers the next chunk; header[0] is the type
\* and chunk.slice(8) the payload, appended to stdout for type 1, to stderr for
\* type 2, dropped otherwise. Nothing closes the stream: chunks are delivered
\* for as long as the process lives, also after the strings have been read.
StreamData(j) ==
    /\ phase \in Up
    /\ HandlerSet(j)
    /\ cont[j].pending # <<>>
    /\ LET chunk == Head(cont[j].pending)
       IN sup' = [sup EXCEPT
                    ![j].chunks = @ + 1,
                    ![j].stdout = IF chunk.type = 1 THEN @ + chunk.n ELSE @,
                    ![j].stderr = IF chunk.type = 2 THEN @ + chunk.n ELSE @]
    /\ cont' = [cont EXCEPT ![j].pending = Tail(@)]
    /\ UNCHANGED <<jobs, phase, sweep, downs, api_keys, now, demux, sampler>>

IoNext ==
    \/ Next
    \/ \E j \in JobIds : ProgramPrint(j)
    \/ \E j \in JobIds : StreamData(j)

IoSpec == Init /\ [][IoNext]_vars

----------------------------------------------------------------------------
\* Several jobs in one process.

\* Number of jobs that can be in progress together.
MaxPair == 2

PairIds == 1..MaxPair

\* The async executor of invocation j has left its catch block by a rejection:
\* the promise it returns is rejected and nothing handles it (the caller's
\* .catch is on the outer promise, and no 'unhandledRejection' handler is
\* registered), so node ends the process, with every invocation in it; "rejected"
\* marks the invocation whose rejection it was.
UnhandledRejection(j) ==
    /\ phase # "down"
    /\ sup[j].pc = "aborted"
    /\ downs < MaxDowns
    /\ downs' = downs + 1
    /\ phase' = "down"
    /\ sweep' = {}
    /\ sup' = [KillSupervisors EXCEPT ![j].pc = "rejected"]
    /\ UNCHANGED <<jobs, cont, api_keys, now, demux, sampler>>

PairNext ==
    \/ StartList \/ SweepRemove \/ StartListen
    \/ Sigterm \/ SigExit \/ Crash \/ Restart
    \/ Submit
    \/ \E j \in PairIds : SupervisorStep(j)
    \/ \E j \in PairIds : WaitThrows(j)
    \/ \E j \in PairIds : ContainerExit(j)
    \/ \E j \in PairIds : TimerFire(j)
    \/ \E j \in PairIds : UnhandledRejection(j)

PairInit == ConstructOn(PairIds) /\ api_keys = {DefaultKey}

PairSpec == PairInit /\ [][PairNext]_vars

----------------------------------------------------------------------------
\* The stats stream: frames of the daemon and the handler of 'data'.

MaxStats == 2

\* 1024 * 1024
MiB == 1048576

\* What a frame is as JSON: "garbage" is not JSON, "no_cpu_stats" has no
\* cpu_stats object, "no_memory_stats" has no memory_stats object, "no_usage"
\* has a memory_stats object without usage, "ok" has every field.
WithCpu ==
    [shape : {"ok", "no_memory_stats", "no_usage"},
     total_usage : {0, 1, 3}, pre_total_usage : {1},
     system_cpu_usage : {2, 4, 8}, pre_system_cpu_usage : {4},
     online_cpus : {2}, usage : {3 * MiB}]

StatsFrames ==
    WithCpu \cup
    [shape : {"garbage", "no_cpu_stats"},
     total_usage : {0}, pre_total_usage : {0},
     system_cpu_usage : {0}, pre_system_cpu_usage : {0},
     online_cpus : {0}, usage : {0}]

\* An update that stores the sample whatever the peak is.
OnStats_LastSample(p, frame) ==
    IF frame.shape \in {"garbage", "no_cpu_stats"} THEN p
    ELSE [maxCpuPercent |->
              Times(Times(Div(frame.total_usage - frame.pre_total_usage,
                              frame.system_cpu_usage - frame.pre_system_cpu_usage),
                          frame.online_cpus), 100),
          maxMemoryMb |-> p.maxMemoryMb]

\* statsStream.on('data', (data) => { try { ... } catch (e) { } }): JSON.parse
\* throws on a frame that is not JSON; reading a member of a missing object
\* throws a TypeError; a missing number is undefined and gives NaN. What was
\* assigned before the throw stays assigned.
OnStats(p, frame) ==
    IF frame.shape \in {"garbage", "no_cpu_stats"} THEN p
    ELSE LET cpuDelta == frame.total_usage - frame.pre_total_usage
             systemDelta == frame.system_cpu_usage - frame.pre_system_cpu_usage
             cpuPercent == Times(Times(Div(cpuDelta, systemDelta), frame.online_cpus), 100)
             afterCpu == IF Gt(cpuPercent, p.maxCpuPercent)
                         THEN [p EXCEPT !.maxCpuPercent = cpuPercent] ELSE p
             memoryMb == IF frame.shape = "no_usage" THEN NaN
                         ELSE Div(frame.usage, MiB)
         IN IF frame.shape = "no_memory_stats" THEN afterCpu
            ELSE IF Gt(memoryMb, afterCpu.maxMemoryMb)
                 THEN [afterCpu EXCEPT !.maxMemoryMb = memoryMb]
            ELSE afterCpu

\* A 'data' event of the stats stream, the handler on its own.
StatsData ==
    /\ Len(samples) < MaxStats
    /\ \E frame \in StatsFrames :
         /\ samples' = Append(samples, frame)
         /\ peaks' = OnStats(peaks, frame)
    /\ UNCHANGED <<engine, api_keys, now, demux>>

SamplerNext == StatsData

SamplerSpec == Init /\ [][SamplerNext]_vars

\* The stats stream of invocation j delivers: it was opened, and
\* statsStream.destroy() in the continuation of wait has not run.
StatsOpen(j) ==
    /\ sup[j].statsStream
    /\ sup[j].result = -1
    /\ cont[j].present

\* A 'data' event of the stats stream of invocation j.
StatsFrame(j) ==
    /\ phase \in Up
    /\ StatsOpen(j)
    /\ \E frame \in StatsFrames :
         sup' = [sup EXCEPT ![j].peaks = OnStats(@, frame)]
    /\ UNCHANGED <<jobs, cont, phase, sweep, downs, api_keys, now, demux, sampler>>

----------------------------------------------------------------------------
\* Requests with arguments and input files.

MaxArgs == 2
MaxFiles == 1

\* Arguments, as characters: "x", "y" and "z w".
ArgValues == {<<"x">>, <<"y">>, <<"z", " ", "w">>}

\* Input files: with and without a name, with and without a content, and with
\* a name that leaves the directory it is unpacked in.
FileNames == {"", "data.txt", "../etc/passwd", "sub/in.txt"}
FileContents == {"", "content"}

SeqsUpTo(S, n) == UNION {[1..k -> S] : k \in 0..n}

\* POST /api/submit with args and inputFiles in the body.
SubmitInputs ==
    \E args \in SeqsUpTo(ArgValues, MaxArgs),
       inputFiles \in SeqsUpTo([name : FileNames, content : FileContents], MaxFiles) :
        SubmitBody(args, inputFiles)

InputNext == Next \/ SubmitInputs

InputSpec == Init /\ [][InputNext]_vars

----------------------------------------------------------------------------
\* The 'data' handler of the attach stream on bytes: the daemon writes frames
\* (8-byte header: stream type, three zero bytes, payload length big-endian;
\* then the payload) and the socket delivers the bytes in chunks of any size.

\* Number of frames the daemon writes.
MaxFrames == 2

\* The first byte of a frame header: 0 stdin, 1 stdout, 2 stderr.
StreamTypes == {0, 1, 2}

\* Payloads of a frame, as UTF-8 bytes: "A", "B", and a two-byte character.
Payloads == {<<65>>, <<66>>, <<195, 169>>}

\* The length field of the header: 32 bits, big-endian.
BE32(n) ==
    <<(n \div 16777216) % 256, (n \div 65536) % 256, (n \div 256) % 256, n % 256>>

Frame(type, payload) == <<type, 0, 0, 0>> \o BE32(Len(payload)) \o payload

\* buf.slice(start, end): the bytes at the indices start .. end - 1 that exist.
Slice(buf, start, end) ==
    LET e == IF end < Len(buf) THEN end ELSE Len(buf)
    IN IF start >= e THEN <<>> ELSE SubSeq(buf, start + 1, e)

\* buf.toString(): UTF-8 decoding to code points; a lead byte of a two-byte
\* character with its continuation byte gives one character, a byte that
\* cannot be decoded gives U+FFFD.
RECURSIVE BufferToString(_)
BufferToString(buf) ==
    IF buf = <<>> THEN <<>>
    ELSE IF buf[1] < 128 THEN <<buf[1]>> \o BufferToString(Tail(buf))
    ELSE IF /\ buf[1] \in 194..223 /\ Len(buf) >= 2 /\ buf[2] \in 128..191
         THEN <<(buf[1] - 192) * 64 + (buf[2] - 128)>> \o BufferToString(Tail(Tail(buf)))
    ELSE <<65533>> \o BufferToString(Tail(buf))

\* stream.on('data', (chunk) => ...): header = chunk.slice(0, 8), type =
\* header[0], payload = chunk.slice(8); stdout += payload.toString() for type 1,
\* stderr += payload.toString() for type 2.
OnData(b, chunk) ==
    LET header == Slice(chunk, 0, 8)
        type == header[1]
        payload == Slice(chunk, 8, Len(chunk))
    IN IF type = 1 THEN [b EXCEPT !.stdout = @ \o BufferToString(payload)]
       ELSE IF type = 2 THEN [b EXCEPT !.stderr = @ \o BufferToString(payload)]
       ELSE b

\* The program prints: the daemon writes one frame to the attach stream.
DaemonWrite ==
    /\ Len(sent) < MaxFrames
    /\ partial = <<>>
    /\ \E type \in StreamTypes, payload \in Payloads :
         /\ sent' = Append(sent, [type |-> type, payload |-> payload])
         /\ wire' = wire \o Frame(type, payload)
    /\ UNCHANGED <<engine, api_keys, now, partial, bufs, sampler>>

\* The stream ends inside a frame: the daemon has written the first n bytes of
\* it, inside the header or inside the payload, and writes nothing more.
DaemonWritePartial ==
    /\ partial = <<>>
    /\ \E type \in {1, 2}, payload \in Payloads :
         \E n \in 1..(Len(Frame(type, payload)) - 1) :
            /\ partial' = SubSeq(Frame(type, payload), 1, n)
            /\ wire' = wire \o SubSeq(Frame(type, payload), 1, n)
    /\ UNCHANGED <<engine, api_keys, now, sent, bufs, sampler>>

\* A 'data' event: the socket delivers the next n bytes as one chunk.
DeliverChunk ==
    /\ wire # <<>>
    /\ \E n \in 1..Len(wire) :
         /\ bufs' = OnData(bufs, SubSeq(wire, 1, n))
         /\ wire' = SubSeq(wire, n + 1, Len(wire))
    /\ UNCHANGED <<engine, api_keys, now, sent, partial, sampler>>

DemuxNext == DaemonWrite \/ DaemonWritePartial \/ DeliverChunk

DemuxSpec == Init /\ [][DemuxNext]_vars

----------------------------------------------------------------------------
\* The engine with the clock.

\* Date.now() advances in steps of TickMs up to MaxNow.
TickMs == 5000
MaxNow == 15000

CONTAINER_TIMEOUT_MS == 10000

Tick ==
    /\ now + TickMs <= MaxNow
    /\ now' = now + TickMs
    /\ UNCHANGED <<engine, api_keys, demux, sampler>>

\* setTimeout(callback, CONTAINER_TIMEOUT_MS): the callback runs once the
\* delay has passed since the timer was set.
TimerFireAtDeadline(j) ==
    /\ now >= sup[j].armedTime + CONTAINER_TIMEOUT_MS
    /\ TimerFire(j)

TimeNext ==
    \/ Step
    \/ \E j \in JobIds : TimerFireAtDeadline(j)
    \/ Tick

TimeSpec == Init /\ [][TimeNext]_vars

\* Jobs under a clock, with statistics.
StatsNext ==
    \/ Step
    \/ \E j \in JobIds : TimerFireAtDeadline(j)
    \/ Tick
    \/ \E j \in JobIds : StatsFrame(j)

StatsSpec == Init /\ [][StatsNext]_vars

----------------------------------------------------------------------------
\* The store statements applied to rows in any order, as a caller of the
\* store may issue them.

StoreCreate(j) ==
    /\ jobs[j].status = "none"
    /\ \E apiKey \in api_keys :
         jobs' = [jobs EXCEPT ![j] = InsertRow(apiKey, now, <<>>, <<>>)]
    /\ UNCHANGED <<cont, sup, phase, sweep, downs, api_keys, now, demux, sampler>>

StoreMarkRunning(j) ==
    /\ jobs[j].status # "none"
    /\ jobs' = [jobs EXCEPT ![j] = MarkRunningRow(jobs[j])]
    /\ UNCHANGED <<cont, sup, phase, sweep, downs, api_keys, now, demux, sampler>>

StoreAttachSandbox(j) ==
    /\ jobs[j].status # "none"
    /\ jobs' = [jobs EXCEPT ![j] = ContainerIdRow(jobs[j])]
    /\ UNCHANGED <<cont, sup, phase, sweep, downs, api_keys, now, demux, sampler>>

StoreFinalize(j) ==
    /\ jobs[j].status # "none"
    /\ \E statusCode \in ExitCodes, timedOut \in BOOLEAN :
         jobs' = [jobs EXCEPT ![j] =
                    FinalizeRow(jobs[j], OutputCap + 1, 0,
                                Crashed(statusCode, timedOut), timedOut, Zero, Zero, 0)]
    /\ UNCHANGED <<cont, sup, phase, sweep, downs, api_keys, now, demux, sampler>>

StoreCatchFinalize(j) ==
    /\ jobs[j].status # "none"
    /\ \E message \in RuntimeErrors \cup StoreErrors :
         jobs' = [jobs EXCEPT ![j] = CatchFinalizeRow(jobs[j], message)]
    /\ UNCHANGED <<cont, sup, phase, sweep, downs, api_keys, now, demux, sampler>>

StoreNext ==
    \E j \in JobIds :
        \/ StoreCreate(j) \/ StoreMarkRunning(j) \/ StoreAttachSandbox(j)
        \/ StoreFinalize(j) \/ StoreCatchFinalize(j)

\* A database to which the key manager has added a second key.
StoreInit == Construct /\ api_keys = ApiKeys

StoreSpec == StoreInit /\ [][StoreNext]_vars

----------------------------------------------------------------------------
\* GET /api/job/:jobId and GET /api/jobs, as functions of the table and of the
\* request of an authenticated key.

\* A handler that looks the job up by its id alone.
GetJob_AnyOwner(table, jobId, apiKey) ==
    IF table[jobId].status # "none"
    THEN [code |-> 200, jobId |-> jobId, status |-> table[jobId].status]
    ELSE [code |-> 404, jobId |-> jobId, status |-> "Job not found"]

\* SELECT * FROM jobs WHERE id = ? AND api_key = ?: 404 without a row, else
\* the job with its result block if it is done.
GetJob(table, jobId, apiKey) ==
    LET job == table[jobId]
    IN IF job.status # "none" /\ job.api_key = apiKey
       THEN [code |-> 200, jobId |-> jobId, status |-> job.status,
             createdAt |-> job.created_at, startedAt |-> job.started_at,
             completedAt |-> job.completed_at,
             result |-> IF job.status = "done"
                        THEN <<job.stdout, job.stdout_len, job.stderr, job.stderr_len,
                               job.crashed = 1, job.timed_out = 1,
                               job.execution_time_ms>>
                        ELSE <<>>]
       ELSE [code |-> 404, jobId |-> jobId, status |-> "Job not found"]

\* WHERE api_key = ?
OwnedBy(table, apiKey) ==
    {j \in JobIds : table[j].status # "none" /\ table[j].api_key = apiKey}

\* ORDER BY created_at DESC; rows of the same second come in the order of
\* their ids.
RECURSIVE OrderByCreatedAtDesc(_, _)
OrderByCreatedAtDesc(table, ids) ==
    IF ids = {} THEN <<>>
    ELSE LET first == CHOOSE x \in ids : \A y \in ids :
                          \/ table[x].created_at > table[y].created_at
                          \/ table[x].created_at = table[y].created_at /\ x <= y
         IN <<first>> \o OrderByCreatedAtDesc(table, ids \ {first})

\* parseInt(req.query.limit) || 100; 0 stands for a limit that is absent, not
\* a number, or 0.
LimitOf(query) == IF query = 0 THEN 100 ELSE query

\* The query parameters tried: limit and offset.
Limits == {0, 1, 2}
Offsets == {0, 1}

\* SELECT id, status, ... FROM jobs WHERE api_key = ? ORDER BY created_at DESC
\* LIMIT ? OFFSET ?
ListJobs(table, apiKey, limit, offset) ==
    LET rows == OrderByCreatedAtDesc(table, OwnedBy(table, apiKey))
        last == IF offset + LimitOf(limit) < Len(rows)
                THEN offset + LimitOf(limit) ELSE Len(rows)
    IN [i \in 1..(IF last > offset THEN last - offset ELSE 0) |->
          LET job == table[rows[offset + i]]
          IN [id |-> rows[offset + i], status |-> job.status,
              created_at |-> job.created_at, started_at |-> job.started_at,
              completed_at |-> job.completed_at, crashed |-> job.crashed,
              timed_out |-> job.timed_out,
              execution_time_ms |-> job.execution_time_ms]]

----------------------------------------------------------------------------
\* Properties.

Rank(status) ==
    CASE status = "none" -> 0
      [] status = "not_started" -> 1
      [] status = "running" -> 2
      [] status = "done" -> 3

Returned(j) == sup[j].pc \in {"resolved", "resolvedFail"}

\* C1: no step moves a job's persisted status backwards along
\* not_started -> running -> done.
C1_StatusMonotonic ==
    [][\A j \in JobIds : Rank(jobs'[j].status) >= Rank(jobs[j].status)]_vars

\* A job that went through running and was finalized by the failure path.
C1_Witness ==
    \E j \in JobIds :
        /\ jobs[j].status = "done" /\ jobs[j].started_at
        /\ sup[j].pc = "resolvedFail"

\* C2 (as stated): when executeJavaInDocker has returned, the job is not
\* running and no container created for it is left in the runtime.
C2_NoSandboxAfterReturn ==
    \A j \in JobIds :
        Returned(j) => jobs[j].status # "running" /\ ~cont[j].present

\* C2 (amended): when executeJavaInDocker has returned, the job is done, a
\* remove was issued on the container if one was created, and the container is
\* still in the runtime only if that remove failed.
C2_RemoveIssuedAfterReturn ==
    \A j \in JobIds :
        Returned(j) =>
            /\ jobs[j].status = "done"
            /\ sup[j].container =>
                 /\ sup[j].rm # "none"
                 /\ cont[j].present => sup[j].rm = "err"

\* An invocation returned after its remove failed: the container is left.
C2_Witness ==
    \E j \in JobIds :
        Returned(j) /\ sup[j].container /\ sup[j].rm = "err" /\ cont[j].present

\* C3: a running job whose deadline has fired does not stay blocked in wait:
\* its Supervisor eventually gets past the wait (or ends with the process).
C3_SupervisorNeverBlocks ==
    \A j \in JobIds :
        (jobs[j].status = "running" /\ sup[j].pc = "wait" /\ sup[j].timeout = "fired")
            ~> (sup[j].pc # "wait")

\* C4: a job left running by a process that went down, and whose container
\* the restarted process has swept, does not stay running once that process
\* is serving (unless the process goes down again).
C4_NoJobRunningForeverAfterRestart ==
    \A j \in JobIds :
        (/\ phase = "listening" /\ sup[j].pc = "dead"
         /\ jobs[j].status = "running"
         /\ cont[j].st # "none" /\ ~cont[j].present)
            ~> (jobs[j].status # "running" \/ phase = "down")

\* C5: a done record of a job whose wait completed says timed_out and not
\* crashed if the timer had fired, and otherwise not timed_out, and crashed
\* exactly when the exit code is non-zero.
C5_Classification ==
    \A j \in JobIds :
        (jobs[j].status = "done" /\ sup[j].result # -1) =>
            IF sup[j].timedOut
            THEN jobs[j].timed_out = 1 /\ jobs[j].crashed = 0
            ELSE jobs[j].timed_out = 0 /\ (jobs[j].crashed = 1 <=> sup[j].result # 0)

\* C6: a record with timed_out set never belongs to a container whose program
\* had ended by itself before the timer callback ran.
C6_TimedOutMeansKilled ==
    \A j \in JobIds :
        jobs[j].timed_out = 1 => ~(cont[j].st = "exited" /\ sup[j].lateFire)

\* C7: a step taken while a record is done leaves every field of the record
\* as it was.
C7_DoneRecordImmutable ==
    [][\A j \in JobIds : jobs[j].status = "done" => jobs'[j] = jobs[j]]_vars

\* A record is done and the engine went on to remove the container and return.
C7_Witness ==
    \E j \in JobIds :
        jobs[j].status = "done" /\ Returned(j) /\ sup[j].rm # "none"

\* C8: a finalize applied to a row that is already done is rejected: a write
\* that finds the row done and leaves it done keeps the terminal fields of the
\* first finalize.
C8_SecondFinalizeRejected ==
    [][\A j \in JobIds :
         (jobs[j].status = "done" /\ jobs'[j].status = "done") =>
            /\ jobs'[j].crashed = jobs[j].crashed
            /\ jobs'[j].timed_out = jobs[j].timed_out
            /\ jobs'[j].stdout = jobs[j].stdout
            /\ jobs'[j].stderr = jobs[j].stderr]_vars

\* C9: once the Supervisor has stopped working on a job after a runtime error,
\* the record is done, crashed, with the error text in stderr, and a
\* force-remove was issued if a container had been created.
C9_RuntimeErrorFinalized ==
    \A j \in JobIds :
        (sup[j].error \in RuntimeErrors /\ sup[j].pc \in {"resolvedFail", "aborted"}) =>
            /\ jobs[j].status = "done"
            /\ jobs[j].crashed = 1
            /\ jobs[j].stderr = sup[j].error
            /\ sup[j].container => sup[j].rm # "none"

\* C10: once the Supervisor has stopped working on a job one of whose finalize
\* writes failed, a remove was issued on the container created for the job.
C10_SandboxRemovedAfterStorageError ==
    \A j \in JobIds :
        (/\ sup[j].pc \in {"resolved", "resolvedFail", "aborted"}
         /\ sup[j].error = "db:finalize" \/ sup[j].pc = "aborted"
         /\ sup[j].container)
            => sup[j].rm # "none"

\* C11: the stdout and the stderr of every done record are at most 10 000
\* characters long, whichever UPDATE wrote them.
C11_PersistedOutputCapped ==
    \A j \in JobIds :
        jobs[j].status = "done" =>
            /\ jobs[j].stdout_len <= OutputCap
            /\ jobs[j].stderr_len <= OutputCap

\* The payloads of the frames of one stream type, concatenated.
RECURSIVE PayloadsOf(_, _)
PayloadsOf(type, frames) ==
    IF frames = <<>> THEN <<>>
    ELSE (IF Head(frames).type = type THEN Head(frames).payload ELSE <<>>)
            \o PayloadsOf(type, Tail(frames))

\* C12: once every byte the daemon wrote has been delivered, in whatever
\* chunks, stdout is the text of the type-1 payloads and stderr the text of
\* the type-2 payloads.
C12_DemuxRoundTrip ==
    (wire = <<>> /\ partial = <<>>) =>
        /\ bufs.stdout = BufferToString(PayloadsOf(1, sent))
        /\ bufs.stderr = BufferToString(PayloadsOf(2, sent))

\* The table without the rows of one key.
WithoutJobsOf(table, apiKey) ==
    [j \in JobIds |-> IF table[j].api_key = apiKey THEN NoRow ELSE table[j]]

\* What a key sees: the answer to every get and to every list.
Observed(table, apiKey) ==
    [get |-> [j \in JobIds |-> GetJob(table, j, apiKey)],
     list |-> [q \in Limits \X Offsets |-> ListJobs(table, apiKey, q[1], q[2])]]

C14_SweepBeforeSubmissions ==
    [][\A j \in JobIds :
         (\/ jobs[j].status = "none" /\ jobs'[j].status # "none"
          \/ cont[j].st = "none" /\ cont'[j].st # "none")
            => phase \notin {"starting", "sweeping", "down"}]_vars

\* The startup sweep of a restarted process has listed a container left by
\* the process before it and has not removed it yet.
C14_Witness ==
    /\ phase = "sweeping" /\ downs > 0
    /\ \E j \in sweep : cont[j].present /\ sup[j].pc = "dead"

\* C15: a step that starts a job's container is taken by an invocation whose
\* attach has succeeded.
C15_AttachBeforeStart ==
    [][\A j \in JobIds :
         (cont[j].st = "created" /\ cont'[j].st = "running") => sup[j].stream]_vars

\* A container was started and its invocation holds the attach stream.
C15_Witness ==
    \E j \in JobIds :
        cont[j].st = "running" /\ sup[j].stream /\ sup[j].pc = "stats"

\* C16: a step that starts a job's container is taken by an invocation that
\* has opened the attach stream and then the stats stream.
C16_StatsBeforeStart ==
    [][\A j \in JobIds :
         (cont[j].st = "created" /\ cont'[j].st = "running")
            => sup[j].stream /\ sup[j].statsStream]_vars

\* The columns a finalize writes.
TerminalFieldsSet(row) ==
    \/ row.completed_at \/ row.crashed = 1 \/ row.timed_out = 1
    \/ row.stdout # "NULL" \/ row.stderr # "NULL" \/ row.execution_time_ms # -1

\* C17: a record with a container id is running or done, and a record with a
\* column of the finalize set is done.
C17_WritesSeenInOrder ==
    \A j \in JobIds :
        /\ jobs[j].container_id => jobs[j].status \in {"running", "done"}
        /\ TerminalFieldsSet(jobs[j]) => jobs[j].status = "done"

\* A running record with its container id, before any finalize.
C17_Witness ==
    \E j \in JobIds :
        /\ jobs[j].status = "running" /\ jobs[j].container_id
        /\ ~TerminalFieldsSet(jobs[j]) /\ sup[j].pc = "putArchive"

\* C18 (presence): a record has started_at exactly when it is running or
\* done, and completed_at exactly when it is done.
C18_TimestampsFollowStatus ==
    \A j \in JobIds :
        jobs[j].status # "none" =>
            /\ jobs[j].started_at <=> jobs[j].status \in {"running", "done"}
            /\ jobs[j].completed_at <=> jobs[j].status = "done"

\* C19: no write of the store takes a done record to running: mark_running on
\* a done job is refused.
C19_MarkRunningRefusedOnDone ==
    [][\A j \in JobIds :
         jobs[j].status = "done" => jobs'[j].status # "running"]_vars

\* C20: the execution_time_ms that the finalize of a job has written is the
\* time from the attach call to the end of the wait, and at least the timeout
\* (less a tolerance of one second) if the record says timed_out.
C20_ExecutionTime ==
    \A j \in JobIds :
        (jobs[j].execution_time_ms # -1 /\ sup[j].result # -1) =>
            /\ jobs[j].timed_out = 1 =>
                  jobs[j].execution_time_ms >= CONTAINER_TIMEOUT_MS - 1000
            /\ jobs[j].execution_time_ms = sup[j].waitTime - sup[j].attachTime

\* The characters of one stream type in chunks not yet delivered.
RECURSIVE PendingLen(_, _)
PendingLen(type, chunks) ==
    IF chunks = <<>> THEN 0
    ELSE (IF Head(chunks).type = type THEN Head(chunks).n ELSE 0)
            + PendingLen(type, Tail(chunks))

\* C21: the stdout and stderr that the finalize of a job has written are all
\* that the program printed, up to the limit: nothing that the daemon wrote
\* before the container stopped is delivered after the strings were read.
C21_BuffersReadAfterDrain ==
    \A j \in JobIds :
        (jobs[j].execution_time_ms # -1 /\ sup[j].result # -1) =>
            /\ jobs[j].stdout_len =
                  Substring(sup[j].stdout + PendingLen(1, cont[j].pending), OutputCap)
            /\ jobs[j].stderr_len =
                  Substring(sup[j].stderr + PendingLen(2, cont[j].pending), OutputCap)

\* C30: at every moment the strings stdout and stderr of an invocation hold at
\* most 10 000 characters each.
C30_CapDuringAppend ==
    \A j \in JobIds :
        sup[j].stdout <= OutputCap /\ sup[j].stderr <= OutputCap

\* C29: a chunk that is a frame cut short by the end of the stream, inside its
\* header or inside its payload, leaves stdout and stderr as they were; so
\* does a chunk that is one frame of a type other than 1 and 2.
C29_PartialFrameDiscarded ==
    [][/\ (partial # <<>> /\ wire = partial /\ wire' = <<>>) => bufs' = bufs
       /\ \A type \in StreamTypes \ {1, 2}, payload \in Payloads :
             (wire = Frame(type, payload) /\ wire' = <<>>) => bufs' = bufs]_vars

\* A name with a path separator or with a ".." component.
UnsafeNames == {"../etc/passwd", "sub/in.txt"}

RECURSIVE Names(_)
Names(inputFiles) ==
    IF inputFiles = <<>> THEN {}
    ELSE {Head(inputFiles).name} \cup Names(Tail(inputFiles))

\* C22: no row holds input files with a name that has a path separator or a
\* ".." component, and no archive put into a container has an entry of such
\* a name.
C22_UnsafeNamesRejected ==
    \A j \in JobIds :
        /\ jobs[j].input_files # "NULL" =>
              Names(JsonParse(jobs[j].input_files)) \cap UnsafeNames = {}
        /\ \A i \in 1..Len(cont[j].files) : cont[j].files[i] \notin UnsafeNames

\* C23: the arguments that main of a started program has received are the
\* args of the request, element by element.
C23_ArgsPreserved ==
    \A j \in JobIds :
        (cont[j].st \notin {"none", "created"} /\ jobs[j].args # "NULL") =>
            cont[j].argv = JsonParse(jobs[j].args)

\* The frames with a cpu_stats object.
HasCpu(frame) == frame.shape \in {"ok", "no_memory_stats", "no_usage"}

SystemDelta(frame) == frame.system_cpu_usage - frame.pre_system_cpu_usage

\* The largest of 0 and 100 * online_cpus * cpu_delta / system_delta over the
\* frames that have a positive system delta.
RECURSIVE LargestCpu(_)
LargestCpu(fs) ==
    IF fs = <<>> THEN Zero
    ELSE LET f == Head(fs)
             rest == LargestCpu(Tail(fs))
             v == Fin(100 * f.online_cpus * (f.total_usage - f.pre_total_usage),
                      SystemDelta(f))
         IN IF HasCpu(f) /\ SystemDelta(f) > 0 /\ Gt(v, rest) THEN v ELSE rest

\* C24: after any frames maxCpuPercent is finite and is the largest CPU
\* percentage of the frames with a positive system delta, 0 without such a
\* frame: a frame with a zero or negative system delta does not count.
C24_CpuGuard ==
    /\ peaks.maxCpuPercent.k = "fin"
    /\ peaks.maxCpuPercent = LargestCpu(samples)

\* C25: a frame that is not JSON, or that lacks an object or a number the
\* handler reads (its system delta, where it has one, being positive), leaves
\* maxCpuPercent and maxMemoryMb as they were.
C25_BadFrameSkipped ==
    [][\A frame \in StatsFrames :
          (/\ samples' = Append(samples, frame)
           /\ frame.shape # "ok"
           /\ HasCpu(frame) => SystemDelta(frame) > 0) => peaks' = peaks]_vars

NonNegative(x) == x.k = "inf" \/ (x.k = "fin" /\ x.n >= 0)

C27_DeadlineRacesWait ==
    [][\A j \in JobIds :
          /\ (sup[j].timeout = "armed" /\ sup'[j].timeout = "fired") =>
                /\ sup'[j].timedOut
                /\ sup'[j].pc = sup[j].pc
                /\ jobs' = jobs
          /\ (jobs[j].execution_time_ms = -1 /\ jobs'[j].execution_time_ms # -1) =>
                sup[j].result # -1
          /\ sup[j].timeout \in {"fired", "cleared"} => sup'[j].timeout # "armed"]_vars

\* The timer fired while wait was pending, and the row was finalized after
\* wait returned, as timed out.
C27_Witness ==
    \E j \in JobIds :
        /\ sup[j].timeout = "fired"
        /\ sup[j].result # -1
        /\ jobs[j].status = "done"
        /\ jobs[j].timed_out = 1

\* C28: the timer callback never runs after the row of the job was finalized
\* or after the invocation has removed the container.
C28_NoFireAfterFinalize ==
    [][\A j \in JobIds :
          (sup[j].timeout = "armed" /\ sup'[j].timeout = "fired") =>
              /\ jobs[j].status # "done"
              /\ sup[j].rm # "ok"]_vars

\* A step of invocation a: its locals change, and not by the end of the process.
StepOf(a) == sup'[a] # sup[a] /\ sup'[a].pc # "dead"

\* C31: a step of the invocation of one job leaves the row, the locals and the
\* container of every other job as they are.
C31_SupervisorsIndependent ==
    [][\A a \in PairIds : \A b \in PairIds \ {a} :
          StepOf(a) => /\ jobs'[b] = jobs[b]
                       /\ sup'[b] = sup[b]
                       /\ cont'[b] = cont[b]]_vars

====
